---------------------------- MODULE Spec2Model ----------------------------
(***************************************************************************)
(* A model of src/src/App.jsx: the client-side validators, the password    *)
(* criteria evaluator, the login and registration submit handlers and the  *)
(* status-message timer of the App component.                              *)
(*                                                                         *)
(* Strings the validators inspect are sequences of one-character strings.  *)
(* JavaScript's null and undefined are the sentinels null and undefined.   *)
(***************************************************************************)
EXTENDS Integers, Sequences, FiniteSets

VARIABLES
    activeTab,     \* App: useState('register')
    message,       \* App: useState({ type: '', content: '' })
    loginForm,     \* LoginForm: formData and isLoading of the mounted instance
    regForm,       \* RegisterForm: formData, errors, isLoading of the mounted instance
    requests,      \* axios.post calls that have not settled yet, in the order issued
    timers,        \* pending setTimeout callbacks, in the order they were armed
    localStorage,  \* window.localStorage, the value under the key 'token'
    location,      \* window.location.href
    last,          \* the task the event loop ran last: its input and its side effects
    probe          \* an input string handed to validatePassword / getPasswordCriteria

vars == <<activeTab, message, loginForm, regForm, requests, timers,
          localStorage, location, last, probe>>

appVars == <<activeTab, message, loginForm, regForm, requests, timers,
             localStorage, location, last>>

---------------------------------------------------------------------------
(* Bounds of the model *)

MaxPending == 2

MaxPrefix == 3

MaxPad == 10

---------------------------------------------------------------------------
(* JavaScript values *)

null == "<null>"

undefined == "<undefined>"

\* String(v) as localStorage.setItem applies it to its value argument
JsString(v) == IF v = undefined THEN "undefined" ELSE IF v = null THEN "null" ELSE v

\* JavaScript truthiness of a string-or-undefined value
Truthy(v) == v # undefined /\ v # null /\ v # ""

---------------------------------------------------------------------------
(* Character classes of the regular expressions *)

UpperChars == {"A","B","C","D","E","F","G","H","I","J","K","L","M",
               "N","O","P","Q","R","S","T","U","V","W","X","Y","Z"}

LowerChars == {"a","b","c","d","e","f","g","h","i","j","k","l","m",
               "n","o","p","q","r","s","t","u","v","w","x","y","z"}

DigitChars == {"0","1","2","3","4","5","6","7","8","9"}

SpecialChars == {"!","@","#","$","%","^","&","*","(",")","_","+","-","=","[","]",
                 "{","}",";","'",":","\"","\\","|",",",".","<",">","/","?"}

WhitespaceChars == {" ", "\t", "\n", "\r"}

\* /[...]/.test(s): some character of s is in the class
HasChar(s, class) == \E i \in 1..Len(s) : s[i] \in class

\* /^[...]+$/.test(s): s is non-empty and every character is in the class
AllChars(s, class) == Len(s) > 0 /\ \A i \in 1..Len(s) : s[i] \in class

\* a run matching [^\s@]+ : non-empty, no whitespace, no "@"
NoSpaceAt(s, lo, hi) ==
    /\ lo <= hi
    /\ \A k \in lo..hi : s[k] \notin WhitespaceChars /\ s[k] # "@"

\* /^[^\s@]+@[^\s@]+\.[^\s@]+$/.test(s)
emailRegex(s) ==
    \E i \in 1..Len(s) : \E j \in 1..Len(s) :
        /\ s[i] = "@"
        /\ s[j] = "."
        /\ NoSpaceAt(s, 1, i - 1)
        /\ NoSpaceAt(s, i + 1, j - 1)
        /\ NoSpaceAt(s, j + 1, Len(s))

usernameRegex(s) == AllChars(s, UpperChars \cup LowerChars \cup DigitChars \cup {"_"})

---------------------------------------------------------------------------
(* Validation logic *)

PasswordMinLength == 8

PasswordMaxLength == 12

UsernameMinLength == 3

validateEmail(email) ==
    IF Len(email) = 0 THEN "Email is required."
    ELSE IF ~emailRegex(email) THEN "Please enter a valid email address."
    ELSE null

validateUsername(username) ==
    IF Len(username) = 0 THEN "Username is required."
    ELSE IF Len(username) < UsernameMinLength
        THEN "Username must be at least 3 characters long."
    ELSE IF ~usernameRegex(username)
        THEN "Username can only contain letters, numbers, and underscores."
    ELSE null

\* the same function with the digit check left out
validatePasswordNoDigit(password) ==
    IF Len(password) = 0 THEN "Password is required."
    ELSE IF Len(password) < PasswordMinLength \/ Len(password) > PasswordMaxLength
        THEN "Password must be between 8 and 12 characters."
    ELSE IF ~HasChar(password, UpperChars)
        THEN "Password must contain at least one uppercase letter."
    ELSE IF ~HasChar(password, LowerChars)
        THEN "Password must contain at least one lowercase letter."
    ELSE IF ~HasChar(password, SpecialChars)
        THEN "Password must contain at least one special character."
    ELSE null

validatePassword(password) ==
    IF Len(password) = 0 THEN "Password is required."
    ELSE IF Len(password) < PasswordMinLength \/ Len(password) > PasswordMaxLength
        THEN "Password must be between 8 and 12 characters."
    ELSE IF ~HasChar(password, UpperChars)
        THEN "Password must contain at least one uppercase letter."
    ELSE IF ~HasChar(password, LowerChars)
        THEN "Password must contain at least one lowercase letter."
    ELSE IF ~HasChar(password, DigitChars)
        THEN "Password must contain at least one number."
    ELSE IF ~HasChar(password, SpecialChars)
        THEN "Password must contain at least one special character."
    ELSE null

getPasswordCriteria(password) ==
    [ length      |-> Len(password) >= PasswordMinLength /\ Len(password) <= PasswordMaxLength,
      uppercase   |-> HasChar(password, UpperChars),
      lowercase   |-> HasChar(password, LowerChars),
      number      |-> HasChar(password, DigitChars),
      specialChar |-> HasChar(password, SpecialChars) ]

---------------------------------------------------------------------------
(* Values the model types into the fields, and responses of the backend *)

EmptyString == <<>>

TypedUsernames == { <<"a","b","$">>, <<"a","b","c","_","1">> }

TypedEmails == { <<"a","@","b",".","c","o">> }

TypedPasswords == { <<"V","a","l","i","d","1","$","p","w">> }

TypedLoginEmails == { <<"a","@","b">> }

\* what the model types when it looks at the registration form alone
RegisterUsernames == { <<"a","b">>, <<"a","b","$">>, <<"a","b","c","_","1">> }

RegisterEmails == { <<"a","@","b">>, <<"a","@","b",".","c","o">> }

RegisterPasswords == { <<"N","o","S","p","e","c","i","a","l","1","2","3">>,
                       <<"V","a","l","i","d","1","$","p","w">> }

\* strings handed to validatePassword and getPasswordCriteria: every string of up to
\* MaxPrefix characters, followed by up to MaxPad copies of one character
PasswordAlphabet == {"A", "a", "1", "!", " "}

Prefixes == UNION {[1..n -> PasswordAlphabet] : n \in 0..MaxPrefix}

Pad(c, n) == [i \in 1..n |-> c]

PasswordInputs == {p \o Pad(c, n) : p \in Prefixes, c \in PasswordAlphabet, n \in 0..MaxPad}

TypedLoginPasswords == { <<"p","w">> }

\* a text the backend puts in the message field of a body
ServerMessage == "message from the server"

\* what axios.post settles with: a 2xx response (resolved), a non-2xx response
\* (rejected, error.response set) or no response at all (rejected, network error);
\* data is the parsed body: an object with the fields below, or null
Response(status, data, token, msg) ==
    [status |-> status, data |-> data, token |-> token, message |-> msg]

LoginResponses ==
    { Response("2xx", "object", "abc", undefined),
      Response("2xx", "null", undefined, undefined),
      Response("4xx", "object", undefined, ServerMessage),
      Response("4xx", "object", undefined, ""),
      Response("network", "null", undefined, undefined) }

RegisterResponses ==
    { Response("2xx", "object", undefined, ServerMessage),
      Response("2xx", "null", undefined, undefined),
      Response("4xx", "object", undefined, ServerMessage),
      Response("4xx", "object", undefined, ""),
      Response("network", "null", undefined, undefined) }

---------------------------------------------------------------------------
(* Program constants *)

AppUrl == "app"

RedirectUrl == "https://portfolio-shahid-frontend.vercel.app"

\* setTimeout(..., 5000) of clearMessage
MessageDelay == 5000

\* setTimeout(..., 1500) of the redirect after login
RedirectDelay == 1500

LoginFallback == "Login failed due to a network or server issue."

RegisterFallback == "Registration failed due to a network or server issue."

FixErrors == "Please fix the errors before submitting."

LoginSuccess == "Login successful! Redirecting..."

---------------------------------------------------------------------------
(* State of the components *)

EmptyMessage == [type |-> "", content |-> ""]

LoginFormData == [email |-> EmptyString, password |-> EmptyString]

RegisterFormData == [username |-> EmptyString, email |-> EmptyString, password |-> EmptyString]

\* useState({}) of errors: every field reads undefined
EmptyErrors == [username |-> undefined, email |-> undefined, password |-> undefined]

LoginFormInit == [formData |-> LoginFormData, isLoading |-> FALSE]

RegisterFormInit == [formData |-> RegisterFormData, errors |-> EmptyErrors, isLoading |-> FALSE]

NoResponse == Response("none", "null", undefined, undefined)

\* a task that is not a run of handleSubmit
NoRun == [form |-> "", phase |-> "none", invalid |-> {},
          response |-> NoResponse, effects |-> <<>>, rejected |-> FALSE]

NoProbe == [input |-> EmptyString, validated |-> FALSE, verdict |-> undefined,
            evaluated |-> FALSE,
            criteria |-> [length |-> FALSE, uppercase |-> FALSE, lowercase |-> FALSE,
                          number |-> FALSE, specialChar |-> FALSE]]

AppInit ==
    /\ activeTab = "register"
    /\ message = EmptyMessage
    /\ loginForm = LoginFormInit
    /\ regForm = RegisterFormInit
    /\ requests = <<>>
    /\ timers = <<>>
    /\ localStorage = undefined
    /\ location = AppUrl
    /\ last = NoRun

Init == AppInit /\ probe = NoProbe

---------------------------------------------------------------------------
(* Side effects of a handler, in the order the code makes them *)

Effect(op, type, content) == [op |-> op, type |-> type, content |-> content]

validateField(name, value) ==
    IF name = "username" THEN validateUsername(value)
    ELSE IF name = "email" THEN validateEmail(value)
    ELSE IF name = "password" THEN validatePassword(value)
    ELSE null

validationErrors(formData) ==
    [ username |-> validateUsername(formData.username),
      email    |-> validateEmail(formData.email),
      password |-> validatePassword(formData.password) ]

\* Object.values(validationErrors).every(error => error !== null)
hasErrorsEvery(errors) == \A f \in DOMAIN errors : errors[f] # null

\* Object.values(validationErrors).some(error => error !== null)
hasErrors(errors) == \E f \in DOMAIN errors : errors[f] # null

\* the clearMessage a handler holds is the one of the render it was created in: its
\* timer compares the displayed content with the message.content of that render
\* own: the message on display is the one this timer was armed for, the latest
\* setMessage having been the one of the handler that armed it
ArmClearMessage(ts, ctx) ==
    Append(ts, [kind |-> "clearMessage", delay |-> MessageDelay,
                captured |-> ctx.captured, own |-> TRUE])

ArmRedirect(ts, ctx) ==
    Append(ts, [kind |-> "redirect", delay |-> RedirectDelay,
                captured |-> "", own |-> FALSE])

\* a new message on display: no pending timer was armed for it
Superseded(ts) == [i \in 1..Len(ts) |-> [ts[i] EXCEPT !.own = FALSE]]

\* st: the state a handler acts on; ctx: what its closure holds (its formData, the
\* clearMessage of its render) and whether its component is still mounted
Apply(st, ctx, e) ==
    CASE e.op = "setIsLoading" ->
           IF ctx.mounted THEN [st EXCEPT !.form.isLoading = (e.type = "true")] ELSE st
      [] e.op = "setMessage" ->
           [st EXCEPT !.message = [type |-> e.type, content |-> e.content],
                      !.timers = Superseded(st.timers)]
      [] e.op = "clearMessage" ->
           [st EXCEPT !.timers = ArmClearMessage(st.timers, ctx)]
      [] e.op = "scheduleRedirect" ->
           [st EXCEPT !.timers = ArmRedirect(st.timers, ctx)]
      [] e.op = "setItem" ->
           [st EXCEPT !.localStorage = JsString(e.content)]
      [] e.op = "post" ->
           [st EXCEPT !.requests = Append(@, [form |-> ctx.form, data |-> ctx.data,
                                              captured |-> ctx.captured,
                                              mounted |-> TRUE])]
      [] e.op = "setErrors" ->
           IF ~ctx.mounted THEN st
           ELSE [st EXCEPT !.form.errors = IF e.type = "validation"
                                           THEN validationErrors(ctx.data)
                                           ELSE EmptyErrors]
      [] e.op = "setFormData" ->
           IF ctx.mounted THEN [st EXCEPT !.form.formData = RegisterFormData] ELSE st

RECURSIVE ApplyAll(_, _, _)
ApplyAll(st, ctx, effects) ==
    IF effects = <<>> THEN st
    ELSE ApplyAll(Apply(st, ctx, Head(effects)), ctx, Tail(effects))

---------------------------------------------------------------------------
(* try / catch / finally of the two handleSubmit functions *)

\* what the try block did: the effects it made before it ended, whether it threw,
\* and the error it threw
Completed(effects) == [threw |-> FALSE, error |-> NoResponse, effects |-> effects]

Threw(error) == [threw |-> TRUE, error |-> error, effects |-> <<>>]

\* a TypeError raised by reading a property of null: it has no response field
TypeError == Response("TypeError", "null", undefined, undefined)

\* error.response?.data?.message
ErrorMessage(error) ==
    IF error.status = "4xx" /\ error.data = "object" THEN error.message ELSE undefined

\* the fallback whatever the server said
ErrorContentFallbackOnly(error, fallback) == fallback

\* error.response?.data?.message || fallback
ErrorContent(error, fallback) ==
    IF Truthy(ErrorMessage(error)) THEN ErrorMessage(error) ELSE fallback

\* try { ... } catch (error) { ... } finally { ... }
TryCatchFinally(try, catch, finally) ==
    [effects  |-> try.effects \o (IF try.threw THEN catch ELSE <<>>) \o finally,
     rejected |-> FALSE]

(* LoginForm.handleSubmit *)

LoginSubmitSync ==
    << Effect("setIsLoading", "true", ""),
       Effect("setMessage", "", ""),
       Effect("post", "/login", "") >>

\* the success message published before the token is stored
LoginTryMessageFirst(resp) ==
    IF resp.status # "2xx" THEN Threw(resp)
    ELSE IF resp.data = "null" THEN Threw(TypeError)
    ELSE Completed(<< Effect("setMessage", "success", LoginSuccess),
                      Effect("setItem", "token", resp.token),
                      Effect("scheduleRedirect", "", "") >>)

\* the try block after the await: axios rejects on a non-2xx response or a network
\* error; response.data.token throws when the body is null
LoginTry(resp) ==
    IF resp.status # "2xx" THEN Threw(resp)
    ELSE IF resp.data = "null" THEN Threw(TypeError)
    ELSE Completed(<< Effect("setItem", "token", resp.token),
                      Effect("setMessage", "success", LoginSuccess),
                      Effect("scheduleRedirect", "", "") >>)

\* a catch block that posts the request once more
LoginCatchRetry(error) ==
    << Effect("post", "/login", ""),
       Effect("setMessage", "error", ErrorContent(error, LoginFallback)),
       Effect("clearMessage", "", "") >>

LoginCatch(error) ==
    << Effect("setMessage", "error", ErrorContent(error, LoginFallback)),
       Effect("clearMessage", "", "") >>

\* a handler that never clears the flag
LoginFinallyNone == <<>>

LoginFinally == << Effect("setIsLoading", "false", "") >>

LoginAfterAwait(resp) ==
    LET try == LoginTry(resp)
    IN  TryCatchFinally(try, LoginCatch(try.error), LoginFinally)

(* RegisterForm.handleSubmit *)

RegisterSubmitSync(formData) ==
    << Effect("setIsLoading", "true", ""),
       Effect("setMessage", "", ""),
       Effect("setErrors", "validation", "") >>
    \o IF hasErrors(validationErrors(formData))
       THEN << Effect("setMessage", "error", FixErrors),
               Effect("clearMessage", "", ""),
               Effect("setIsLoading", "false", "") >>
       ELSE << Effect("post", "/register", "") >>

\* a success path that keeps the field values
RegisterTryNoReset(resp) ==
    IF resp.status # "2xx" THEN Threw(resp)
    ELSE IF resp.data = "null" THEN Threw(TypeError)
    ELSE Completed(<< Effect("setMessage", "success", resp.message),
                      Effect("setErrors", "empty", ""),
                      Effect("clearMessage", "", "") >>)

RegisterTry(resp) ==
    IF resp.status # "2xx" THEN Threw(resp)
    ELSE IF resp.data = "null" THEN Threw(TypeError)
    ELSE Completed(<< Effect("setMessage", "success", resp.message),
                      Effect("setFormData", "empty", ""),
                      Effect("setErrors", "empty", ""),
                      Effect("clearMessage", "", "") >>)

RegisterCatch(error) ==
    << Effect("setMessage", "error", ErrorContent(error, RegisterFallback)),
       Effect("clearMessage", "", "") >>

RegisterFinally == << Effect("setIsLoading", "false", "") >>

RegisterAfterAwait(resp) ==
    LET try == RegisterTry(resp)
    IN  TryCatchFinally(try, RegisterCatch(try.error), RegisterFinally)

---------------------------------------------------------------------------
(* The browser around the handlers *)

\* a submit button that is never disabled
SubmitAlwaysEnabled(form) == TRUE

\* disabled={isLoading} on the submit button: a disabled default button blocks
\* both the click and the implicit submission of the form
SubmitEnabled(form) == ~form.isLoading

\* `required` on every InputField: the browser fires no submit event while a
\* field is empty
RequiredFilled(formData) == \A f \in DOMAIN formData : Len(formData[f]) > 0

State(form) ==
    [message |-> message, timers |-> timers,
     localStorage |-> localStorage, requests |-> requests, form |-> form]

Commit(st) ==
    /\ message' = st.message
    /\ timers' = st.timers
    /\ localStorage' = st.localStorage
    /\ requests' = st.requests

\* requests and timers not yet seen through
Pending == Len(requests) + Len(timers)

\* the closure of the handleSubmit that runs: the formData and the clearMessage of
\* the latest render, and that clearMessage holds the message.content of that render
Context(form, formData) ==
    [form |-> form, data |-> formData, captured |-> message.content, mounted |-> TRUE]

\* the closure of the handleSubmit that issued request k
Resumed(k) ==
    [form |-> requests[k].form, data |-> requests[k].data,
     captured |-> requests[k].captured, mounted |-> requests[k].mounted]

\* the fields of formData that a validator rejects
Rejected(formData) == {f \in DOMAIN formData : validateField(f, formData[f]) # null}

---------------------------------------------------------------------------
(* Actions *)

Without(seq, i) == [j \in 1..(Len(seq) - 1) |-> IF j < i THEN seq[j] ELSE seq[j + 1]]

\* App: onClick={() => setActiveTab(tab)}; the other form unmounts, a new
\* instance of this one mounts
SetActiveTab(tab) ==
    /\ location = AppUrl
    /\ tab # activeTab
    /\ activeTab' = tab
    /\ loginForm' = LoginFormInit
    /\ regForm' = RegisterFormInit
    /\ requests' = [k \in 1..Len(requests) |-> [requests[k] EXCEPT !.mounted = FALSE]]
    /\ last' = NoRun
    /\ UNCHANGED <<message, timers, localStorage, location, probe>>

LoginHandleChange(name, value) ==
    /\ location = AppUrl
    /\ activeTab = "login"
    /\ loginForm' = [loginForm EXCEPT !.formData[name] = value]
    /\ last' = NoRun
    /\ UNCHANGED <<activeTab, message, regForm, requests, timers, localStorage,
                   location, probe>>

LoginHandleSubmit ==
    /\ location = AppUrl
    /\ activeTab = "login"
    /\ SubmitEnabled(loginForm)
    /\ RequiredFilled(loginForm.formData)
    /\ Pending < MaxPending
    /\ LET ctx == Context("login", loginForm.formData)
           effects == LoginSubmitSync
           st == ApplyAll(State(loginForm), ctx, effects)
       IN  /\ Commit(st)
           /\ loginForm' = st.form
           /\ last' = [form |-> "login", phase |-> "submit",
                       invalid |-> {}, response |-> NoResponse,
                       effects |-> effects, rejected |-> FALSE]
    /\ UNCHANGED <<activeTab, regForm, location, probe>>

\* the rest of LoginForm.handleSubmit, run once axios.post has settled
LoginSettle(k, resp) ==
    /\ location = AppUrl
    /\ k \in 1..Len(requests)
    /\ requests[k].form = "login"
    /\ LET after == LoginAfterAwait(resp)
           st == ApplyAll([State(loginForm) EXCEPT !.requests = Without(@, k)],
                          Resumed(k), after.effects)
       IN  /\ last' = [form |-> "login", phase |-> "settle",
                       invalid |-> {}, response |-> resp,
                       effects |-> after.effects, rejected |-> after.rejected]
           /\ Commit(st)
           /\ loginForm' = st.form
    /\ UNCHANGED <<activeTab, regForm, location, probe>>

RegisterHandleChange(name, value) ==
    /\ location = AppUrl
    /\ activeTab = "register"
    /\ regForm' = [regForm EXCEPT !.formData[name] = value,
                                  !.errors[name] = validateField(name, value)]
    /\ last' = NoRun
    /\ UNCHANGED <<activeTab, message, loginForm, requests, timers, localStorage,
                   location, probe>>

RegisterHandleBlur(name) ==
    /\ location = AppUrl
    /\ activeTab = "register"
    /\ regForm' = [regForm EXCEPT
                     !.errors[name] = validateField(name, regForm.formData[name])]
    /\ last' = NoRun
    /\ UNCHANGED <<activeTab, message, loginForm, requests, timers, localStorage,
                   location, probe>>

RegisterHandleSubmit ==
    /\ location = AppUrl
    /\ activeTab = "register"
    /\ SubmitEnabled(regForm)
    /\ RequiredFilled(regForm.formData)
    /\ Pending < MaxPending
    /\ LET ctx == Context("register", regForm.formData)
           effects == RegisterSubmitSync(regForm.formData)
           st == ApplyAll(State(regForm), ctx, effects)
       IN  /\ Commit(st)
           /\ regForm' = st.form
           /\ last' = [form |-> "register", phase |-> "submit",
                       invalid |-> Rejected(regForm.formData), response |-> NoResponse,
                       effects |-> effects, rejected |-> FALSE]
    /\ UNCHANGED <<activeTab, loginForm, location, probe>>

\* the rest of RegisterForm.handleSubmit, run once axios.post has settled
RegisterSettle(k, resp) ==
    /\ location = AppUrl
    /\ k \in 1..Len(requests)
    /\ requests[k].form = "register"
    /\ LET after == RegisterAfterAwait(resp)
           st == ApplyAll([State(regForm) EXCEPT !.requests = Without(@, k)],
                          Resumed(k), after.effects)
       IN  /\ last' = [form |-> "register", phase |-> "settle",
                       invalid |-> {}, response |-> resp,
                       effects |-> after.effects, rejected |-> after.rejected]
           /\ Commit(st)
           /\ regForm' = st.form
    /\ UNCHANGED <<activeTab, loginForm, location, probe>>

\* the timers the browser may run next: one armed earlier with a delay no longer
\* than this one's is due before it
NextDue(i) ==
    /\ i \in 1..Len(timers)
    /\ \A j \in 1..(i - 1) : timers[j].delay > timers[i].delay

\* setMessage((prev) => prev.content === message.content ? { type: '', content: '' } : prev)
ClearIfSame(prev, captured) == IF prev.content = captured THEN EmptyMessage ELSE prev

\* the callback clearMessage armed MessageDelay ago
FireClearMessage(i) ==
    /\ location = AppUrl
    /\ NextDue(i)
    /\ timers[i].kind = "clearMessage"
    /\ message' = ClearIfSame(message, timers[i].captured)
    /\ timers' = Without(timers, i)
    /\ last' = NoRun
    /\ UNCHANGED <<activeTab, loginForm, regForm, requests, localStorage, location,
                   probe>>

\* the callback of the login redirect: window.location.href = ...; the page is
\* left, and with it its components, its timers and its requests; localStorage stays
FireRedirect(i) ==
    /\ location = AppUrl
    /\ NextDue(i)
    /\ timers[i].kind = "redirect"
    /\ location' = RedirectUrl
    /\ activeTab' = "register"
    /\ message' = EmptyMessage
    /\ loginForm' = LoginFormInit
    /\ regForm' = RegisterFormInit
    /\ requests' = <<>>
    /\ timers' = <<>>
    /\ last' = NoRun
    /\ UNCHANGED <<localStorage, probe>>

\* validatePassword applied to the probe
RunValidatePassword ==
    /\ ~probe.validated
    /\ probe' = [probe EXCEPT !.validated = TRUE, !.verdict = validatePassword(probe.input)]
    /\ UNCHANGED appVars

\* PasswordCriteria: useMemo(() => getPasswordCriteria(password), [password])
RunGetPasswordCriteria ==
    /\ ~probe.evaluated
    /\ probe' = [probe EXCEPT !.evaluated = TRUE,
                              !.criteria = getPasswordCriteria(probe.input)]
    /\ UNCHANGED appVars

---------------------------------------------------------------------------
(* Specifications *)

\* both forms, the tabs and the timers
Next ==
    \/ \E tab \in {"login", "register"} : SetActiveTab(tab)
    \/ \E v \in TypedLoginEmails : LoginHandleChange("email", v)
    \/ \E v \in TypedLoginPasswords : LoginHandleChange("password", v)
    \/ LoginHandleSubmit
    \/ \E k \in 1..Len(requests) : \E resp \in LoginResponses : LoginSettle(k, resp)
    \/ \E v \in TypedUsernames : RegisterHandleChange("username", v)
    \/ \E v \in TypedEmails : RegisterHandleChange("email", v)
    \/ \E v \in TypedPasswords : RegisterHandleChange("password", v)
    \/ RegisterHandleSubmit
    \/ \E k \in 1..Len(requests) : \E resp \in RegisterResponses : RegisterSettle(k, resp)
    \/ \E i \in 1..Len(timers) : FireClearMessage(i)
    \/ \E i \in 1..Len(timers) : FireRedirect(i)

Spec == Init /\ [][Next]_vars

\* an axios.post call settles in the end: the oldest outstanding one is not left
\* waiting for ever
Settle ==
    \/ \E resp \in LoginResponses : LoginSettle(1, resp)
    \/ \E resp \in RegisterResponses : RegisterSettle(1, resp)

\* the forms and their requests while no timer is due yet
FormsNext ==
    \/ \E tab \in {"login", "register"} : SetActiveTab(tab)
    \/ \E v \in TypedLoginEmails : LoginHandleChange("email", v)
    \/ \E v \in TypedLoginPasswords : LoginHandleChange("password", v)
    \/ LoginHandleSubmit
    \/ \E k \in 1..Len(requests) : \E resp \in LoginResponses : LoginSettle(k, resp)
    \/ \E v \in TypedUsernames : RegisterHandleChange("username", v)
    \/ \E v \in TypedEmails : RegisterHandleChange("email", v)
    \/ \E v \in TypedPasswords : RegisterHandleChange("password", v)
    \/ RegisterHandleSubmit
    \/ \E k \in 1..Len(requests) : \E resp \in RegisterResponses : RegisterSettle(k, resp)

FairSpec == Init /\ [][FormsNext]_vars /\ WF_vars(Settle)

\* the registration form alone, every field typed valid and invalid, left and
\* re-entered
RegisterNext ==
    \/ \E v \in RegisterUsernames : RegisterHandleChange("username", v)
    \/ \E v \in RegisterEmails : RegisterHandleChange("email", v)
    \/ \E v \in RegisterPasswords : RegisterHandleChange("password", v)
    \/ \E name \in {"username", "email", "password"} : RegisterHandleBlur(name)
    \/ RegisterHandleSubmit
    \/ \E k \in 1..Len(requests) : \E resp \in RegisterResponses : RegisterSettle(k, resp)
    \/ \E i \in 1..Len(timers) : FireClearMessage(i)

RegisterSpec == Init /\ [][RegisterNext]_vars

\* the two password functions on every string of PasswordInputs
PasswordInit == AppInit /\ probe \in {[NoProbe EXCEPT !.input = s] : s \in PasswordInputs}

PasswordNext == RunValidatePassword \/ RunGetPasswordCriteria

PasswordSpec == PasswordInit /\ [][PasswordNext]_vars

---------------------------------------------------------------------------
(* What the claims read off a state *)

\* the places of an effect in a run's effects
Places(effects, op) == {i \in 1..Len(effects) : effects[i].op = op}

\* the requests the mounted instance of a form has outstanding
Outstanding(form) ==
    {k \in 1..Len(requests) : requests[k].form = form /\ requests[k].mounted}

IsSubmit(form) == last.phase = "submit" /\ last.form = form

IsSettle(form) == last.phase = "settle" /\ last.form = form

\* the HTTP call succeeded with a body to read
Succeeded(resp) == resp.status = "2xx" /\ resp.data = "object"

\* the server put a text in the message field of an error body
ServerText(resp) ==
    resp.status = "4xx" /\ resp.data = "object" /\ resp.message \notin {undefined, null, ""}

Fallback(form) == IF form = "login" THEN LoginFallback ELSE RegisterFallback

PasswordMessages ==
    [ length      |-> "Password must be between 8 and 12 characters.",
      uppercase   |-> "Password must contain at least one uppercase letter.",
      lowercase   |-> "Password must contain at least one lowercase letter.",
      number      |-> "Password must contain at least one number.",
      specialChar |-> "Password must contain at least one special character." ]

CriteriaOrder == <<"length", "uppercase", "lowercase", "number", "specialChar">>

---------------------------------------------------------------------------
(* C1: a registration submit with a field some validator rejects issues no     *)
(* request and publishes the error message "Please fix the errors before       *)
(* submitting."; every registration request carries values all three           *)
(* validators accept.                                                          *)
C1_InvalidSubmitSendsNothing ==
    /\ (IsSubmit("register") /\ last.invalid # {}) =>
          /\ Places(last.effects, "post") = {}
          /\ Outstanding("register") = {}
          /\ message = [type |-> "error", content |-> FixErrors]
    /\ \A k \in 1..Len(requests) :
          requests[k].form = "register" =>
             /\ validateUsername(requests[k].data.username) = null
             /\ validateEmail(requests[k].data.email) = null
             /\ validatePassword(requests[k].data.password) = null

\* a submit that only the password validator rejects has run
C1_Witness ==
    /\ IsSubmit("register")
    /\ last.invalid = {"password"}
    /\ message.content = FixErrors

(* C2: a form instance has at most one request outstanding, it is busy while   *)
(* that request is outstanding, and a request leaves only by settling (or with *)
(* the page).                                                                  *)
C2_OneOutstanding ==
    \A form \in {"login", "register"} :
       /\ Cardinality(Outstanding(form)) <= 1
       /\ Outstanding(form) # {} =>
             IF form = "login" THEN loginForm.isLoading ELSE regForm.isLoading

C2_NeverCancelled ==
    (location' = AppUrl /\ Len(requests') < Len(requests)) =>
        /\ last'.phase = "settle"
        /\ Len(requests') = Len(requests) - 1

C2_SingleSubmission == []C2_OneOutstanding /\ [][C2_NeverCancelled]_vars

\* a login request is outstanding, its form is busy and so refuses a second submit
C2_Witness ==
    /\ Outstanding("login") # {}
    /\ loginForm.isLoading
    /\ RequiredFilled(loginForm.formData)
    /\ ~ENABLED LoginHandleSubmit

(* C3: the busy flag of a form is true only while a request of that form       *)
(* instance is outstanding, every run of handleSubmit that leaves none          *)
(* outstanding leaves the flag false, and a busy form gets idle again once      *)
(* its HTTP call settles.                                                       *)
C3_BusyOnlyWhileOutstanding ==
    /\ loginForm.isLoading => Outstanding("login") # {}
    /\ regForm.isLoading => Outstanding("register") # {}

C3_BusyFlagCleared ==
    /\ []C3_BusyOnlyWhileOutstanding
    /\ (loginForm.isLoading \/ regForm.isLoading)
          ~> (~loginForm.isLoading /\ ~regForm.isLoading)

\* a registration request has failed and its form is idle again
C3_Witness ==
    /\ IsSettle("register")
    /\ last.response.status = "network"
    /\ activeTab = "register"
    /\ ~regForm.isLoading
    /\ Outstanding("register") = {}

(* C4: every non-empty message on display has a pending 5-second timer, armed  *)
(* when it was published, whose firing resets the message to none.             *)
C4_EveryMessageExpires ==
    Truthy(message.content) =>
        \E i \in 1..Len(timers) :
            /\ timers[i].kind = "clearMessage"
            /\ timers[i].delay = MessageDelay
            /\ timers[i].own
            /\ ClearIfSame(message, timers[i].captured) = EmptyMessage

(* C5: a firing timer changes the message on display only when that message is *)
(* the one the timer was armed for.                                            *)
C5_StaleTimerClearsNothing ==
    [][\A i \in 1..Len(timers) :
          (FireClearMessage(i) /\ message' # message) => timers[i].own]_vars

(* C6: a login whose HTTP call succeeds with a token writes that token once    *)
(* under 'token', before it publishes the success message, and schedules one   *)
(* navigation 1.5 seconds later; a login whose call fails writes nothing and   *)
(* schedules nothing.                                                          *)
C6_TokenStoredOnce ==
    IsSettle("login") =>
        LET e == last.effects
            writes == Places(e, "setItem")
            texts == Places(e, "setMessage")
            redirects == Places(e, "scheduleRedirect")
        IN  IF Succeeded(last.response)
            THEN /\ Cardinality(writes) = 1
                 /\ \A w \in writes :
                       /\ e[w].type = "token"
                       /\ e[w].content = last.response.token
                       /\ \A t \in texts : e[t].type = "success" /\ w < t
                 /\ Cardinality(texts) = 1
                 /\ localStorage = last.response.token
                 /\ message = [type |-> "success", content |-> LoginSuccess]
                 /\ Cardinality(redirects) = 1
                 /\ Cardinality({i \in 1..Len(timers) :
                                   timers[i] = [kind |-> "redirect", delay |-> RedirectDelay,
                                                captured |-> "", own |-> FALSE]}) >= 1
            ELSE /\ writes = {}
                 /\ redirects = {}

\* a login has succeeded with the token "abc"
C6_Witness ==
    /\ IsSettle("login")
    /\ Succeeded(last.response)
    /\ last.response.token = "abc"
    /\ localStorage = "abc"

(* C7: a submit whose HTTP call fails, or whose response cannot be read, ends  *)
(* in an error message: the text of the server's message field when it has     *)
(* one, the fallback of the operation otherwise; the handler's promise is not  *)
(* rejected.                                                                   *)
C7_FailuresBecomeMessages ==
    \A form \in {"login", "register"} :
        (IsSettle(form) /\ ~Succeeded(last.response)) =>
            /\ ~last.rejected
            /\ message.type = "error"
            /\ message.content = IF ServerText(last.response)
                                 THEN last.response.message
                                 ELSE Fallback(form)

\* a login has failed with a message of the server, which is on display
C7_Witness ==
    /\ IsSettle("login")
    /\ last.response.status = "4xx"
    /\ message = [type |-> "error", content |-> ServerMessage]

(* C8: validatePassword returns null exactly when the five criteria of         *)
(* getPasswordCriteria are all true, and for a non-empty string its message is *)
(* the one of the first criterion that is false, in the order length,          *)
(* uppercase, lowercase, number, specialChar; getPasswordCriteria gives five   *)
(* booleans for every string.                                                  *)
C8_ValidatorAgreesWithCriteria ==
    /\ probe.evaluated =>
          /\ DOMAIN probe.criteria = {"length", "uppercase", "lowercase", "number", "specialChar"}
          /\ \A c \in DOMAIN probe.criteria : probe.criteria[c] \in BOOLEAN
    /\ (probe.validated /\ probe.evaluated) =>
          LET unmet == {i \in 1..Len(CriteriaOrder) : ~probe.criteria[CriteriaOrder[i]]}
          IN  /\ (probe.verdict = null) <=> (unmet = {})
              /\ (Len(probe.input) > 0 /\ unmet # {}) =>
                    \E i \in unmet :
                       /\ \A j \in unmet : i <= j
                       /\ probe.verdict = PasswordMessages[CriteriaOrder[i]]

\* a string of the right length that lacks only a digit has been through both
C8_Witness ==
    /\ probe.validated
    /\ probe.evaluated
    /\ probe.criteria = [length |-> TRUE, uppercase |-> TRUE, lowercase |-> TRUE,
                         number |-> FALSE, specialChar |-> TRUE]
    /\ probe.verdict = PasswordMessages.number

(* C9: a registration whose HTTP call succeeds publishes the response's        *)
(* message as a success message and empties the three fields and the field     *)
(* errors; a registration submit that fails, in validation or in the HTTP      *)
(* call, leaves the three field values as they were.                           *)
C9_ResetOnSuccess ==
    (IsSettle("register") /\ Succeeded(last.response)) =>
        /\ message = [type |-> "success", content |-> last.response.message]
        /\ regForm.formData = RegisterFormData
        /\ regForm.errors = EmptyErrors

C9_FailureKeepsValues ==
    (\/ last'.phase = "submit" /\ last'.form = "register" /\ last'.invalid # {}
     \/ last'.phase = "settle" /\ last'.form = "register" /\ ~Succeeded(last'.response))
    => regForm'.formData = regForm.formData

C9_RegisterFrame == []C9_ResetOnSuccess /\ [][C9_FailureKeepsValues]_vars

\* a registration has succeeded and the form is empty again
C9_Witness ==
    /\ IsSettle("register")
    /\ Succeeded(last.response)
    /\ message.type = "success"
    /\ regForm.formData = RegisterFormData

(* C10: every login submit, and every registration submit whose values the     *)
(* three validators accept, posts exactly one request, which carries the       *)
(* form's field values; an invalid registration submit posts none, and the     *)
(* code run when a request settles posts none.                                 *)
C10_PostsOfRun ==
    /\ IsSubmit("login") => Cardinality(Places(last.effects, "post")) = 1
    /\ IsSubmit("register") =>
          Cardinality(Places(last.effects, "post")) = (IF last.invalid = {} THEN 1 ELSE 0)
    /\ last.phase = "settle" => Places(last.effects, "post") = {}

C10_RequestOfSubmit ==
    /\ last'.phase = "submit" =>
          LET sent == IF last'.form = "login" \/ last'.invalid = {} THEN 1 ELSE 0
          IN  /\ Len(requests') = Len(requests) + sent
              /\ sent = 1 =>
                    /\ requests'[Len(requests')].form = last'.form
                    /\ requests'[Len(requests')].data =
                          (IF last'.form = "login" THEN loginForm.formData
                           ELSE regForm.formData)
    /\ last'.phase # "submit" => Len(requests') <= Len(requests)

C10_OneRequestPerSubmit == []C10_PostsOfRun /\ [][C10_RequestOfSubmit]_vars

\* a valid registration submit has posted its request
C10_Witness ==
    /\ IsSubmit("register")
    /\ last.invalid = {}
    /\ Outstanding("register") # {}

=============================================================================
